---- MODULE Spec2Model ----
(***************************************************************************)
(* A model of the dexcom-js client: the option / token / time-window       *)
(* validators (helpers.js, schema.js), the process-wide options store      *)
(* (options.js), the token lifecycle manager (helpers.refreshAccessToken)  *)
(* and the data-fetch operations of index.js.                              *)
(*                                                                         *)
(* JavaScript values are records tagged by their typeof; numbers are       *)
(* signed three-limb base-10^9 magnitudes, so that real epoch-millisecond  *)
(* values and the 64-bit schema maximum are exact.                         *)
(***************************************************************************)
EXTENDS Integers, Sequences, FiniteSets, TLC

VARIABLES options, now, heap, calls, probe

vars == <<options, now, heap, calls, probe>>

----------------------------------------------------------------------------
(* Bounds of the model *)

\* the clock runs over ClockBase + 0 .. ClockBase + MaxNow milliseconds
MaxNow == 1
\* number of calls that may be in flight together
MaxCalls == 1
\* number of envelope objects the heap may hold
MaxHeap == 2
\* time windows offered to the data-fetch operations end at MaxWindow
MaxWindow == 2
\* validator probes draw integers from -1 .. MaxProbeInt
MaxProbeInt == 3
\* date probes step each sample time by 0 .. MaxMillisStep milliseconds
MaxMillisStep == 1
\* long date ranges span up to MaxSpanChunks * 89 days and a millisecond
MaxSpanChunks == 2
\* rangeInDayIntervals looks back 0 .. MaxDaysPast days
MaxDaysPast == 7

----------------------------------------------------------------------------
(* JavaScript values *)

Limb == 10 ^ 9

Undefined == [t |-> "undefined"]
JSNull    == [t |-> "null"]
Big(a, b, c) == <<a, b, c>>
Num(n) == [t |-> "number", neg |-> n < 0, mag |-> Big(0, 0, IF n < 0 THEN -n ELSE n)]
BigNum(m) == [t |-> "number", neg |-> FALSE, mag |-> m]
Str(tag, len, uri) == [t |-> "string", tag |-> tag, len |-> len, uri |-> uri]
Obj(props) == [t |-> "object", props |-> props]

BigLeq(x, y) ==
  \/ x[1] < y[1]
  \/ x[1] = y[1] /\ x[2] < y[2]
  \/ x[1] = y[1] /\ x[2] = y[2] /\ x[3] <= y[3]

BigAdd(x, y) ==
  LET s3 == x[3] + y[3]
      c3 == s3 \div Limb
      s2 == x[2] + y[2] + c3
      c2 == s2 \div Limb
  IN  Big(x[1] + y[1] + c2, s2 % Limb, s3 % Limb)

\* u <= v on JavaScript numbers
NumLeq(u, v) ==
  IF u.neg /\ ~v.neg THEN TRUE
  ELSE IF ~u.neg /\ v.neg THEN FALSE
  ELSE IF u.neg THEN BigLeq(v.mag, u.mag)
  ELSE BigLeq(u.mag, v.mag)

NumLess(u, v) == ~NumLeq(v, u)

IsZero(v) == v.mag = Big(0, 0, 0)

\* ToBoolean, as applied by assert(value, message)
Truthy(v) ==
  CASE v.t = "undefined" -> FALSE
    [] v.t = "null"      -> FALSE
    [] v.t = "number"    -> ~IsZero(v)
    [] v.t = "string"    -> v.len > 0
    [] OTHER             -> TRUE

\* instance[name]
Prop(inst, name) ==
  IF inst.t = "object" /\ name \in DOMAIN inst.props THEN inst.props[name] ELSE Undefined

----------------------------------------------------------------------------
(* schema.js *)

epochTime32 ==
  [id |-> "/EpochTime", type |-> "integer",
   minimum |-> Num(0), maximum |-> BigNum(Big(0, 2, 147483647))]
epochTime ==
  [id |-> "/EpochTime", type |-> "integer",
   minimum |-> Num(0), maximum |-> BigNum(Big(9, 223372036, 854775807))]

packageOptions ==
  [id |-> "/PackageOptions", type |-> "object",
   properties |->
     [clientId     |-> [type |-> "string", minLength |-> 1, maxLength |-> 32],
      clientSecret |-> [type |-> "string", minLength |-> 1, maxLength |-> 16],
      redirectUri  |-> [type |-> "string", format |-> "uri"],
      apiUri       |-> [type |-> "string", format |-> "uri"]],
   required |-> {"clientId", "clientSecret", "redirectUri", "apiUri"}]

dexcomOAuthToken ==
  [id |-> "/DexcomOAuthToken", type |-> "object",
   properties |->
     [access_token  |-> [type |-> "string",  minLength |-> 1, maxLength |-> 1024],
      expires_in    |-> [type |-> "integer", minimum |-> Num(0), maximum |-> Num(7200)],
      token_type    |-> [type |-> "string",  minLength |-> 1, maxLength |-> 6],
      refresh_token |-> [type |-> "string",  minLength |-> 1, maxLength |-> 1024]],
   required |-> {"access_token", "expires_in", "token_type", "refresh_token"}]

oauthTokens ==
  [id |-> "/OAuthTokens", type |-> "object",
   properties |->
     [timestamp        |-> [ref |-> "/EpochTime"],
      dexcomOAuthToken |-> [ref |-> "/DexcomOAuthToken"]],
   required |-> {"timestamp", "dexcomOAuthToken"}]

sandboxAuthCodesZeroToSeven ==
  [id |-> "/SandboxAuthCode", type |-> "string",
   enum |-> {"authcode0", "authcode1", "authcode2", "authcode3", "authcode4",
             "authcode5", "authcode6", "authcode7"}]
sandboxAuthCodes ==
  [id |-> "/SandboxAuthCode", type |-> "string",
   enum |-> {"authcode1", "authcode2", "authcode3", "authcode4", "authcode5", "authcode6"}]

----------------------------------------------------------------------------
(* The jsonschema Validator, restricted to the keywords schema.js uses *)

\* validator.addSchema(schema.dexcomOAuthToken, '/DexcomOAuthToken') and
\* validator.addSchema(schema.epochTime, '/EpochTime')
RegisteredSchema(uri) ==
  CASE uri = "/EpochTime"        -> epochTime
    [] uri = "/DexcomOAuthToken" -> dexcomOAuthToken

TypeOk(inst, type) ==
  CASE inst.t = "undefined" -> TRUE
    [] type = "integer"     -> inst.t = "number"
    [] type = "string"      -> inst.t = "string"
    [] type = "object"      -> inst.t = "object"

RECURSIVE Validate(_, _)
Validate(inst, sch) ==
  LET K == DOMAIN sch IN
  IF "ref" \in K THEN Validate(inst, RegisteredSchema(sch.ref))
  ELSE
    /\ "type" \in K => TypeOk(inst, sch.type)
    /\ ("minLength" \in K /\ inst.t = "string") => inst.len >= sch.minLength
    /\ ("maxLength" \in K /\ inst.t = "string") => inst.len <= sch.maxLength
    /\ ("format" \in K /\ inst.t = "string" /\ sch.format = "uri") => inst.uri
    /\ ("minimum" \in K /\ inst.t = "number") => NumLeq(sch.minimum, inst)
    /\ ("maximum" \in K /\ inst.t = "number") => NumLeq(inst, sch.maximum)
    /\ ("enum" \in K /\ inst.t # "undefined") => (inst.t = "string" /\ inst.tag \in sch.enum)
    /\ ("required" \in K /\ inst.t = "object") =>
         \A n \in sch.required : Prop(inst, n).t # "undefined"
    /\ ("properties" \in K /\ inst.t = "object") =>
         \A n \in DOMAIN sch.properties : Validate(Prop(inst, n), sch.properties[n])

----------------------------------------------------------------------------
(* helpers.js: the validators.  Each is TRUE when the function returns and  *)
(* FALSE when one of its assertions throws.                                 *)

validateOptionsNoSchema(opts) == Truthy(opts)
validateOptions(opts) ==
  /\ Truthy(opts)
  /\ Validate(opts, packageOptions)

validateSandboxAuthcode(authcode) ==
  /\ Truthy(authcode)
  /\ Validate(authcode, sandboxAuthCodes)

validateOAuthTokens(tokens) ==
  /\ Truthy(tokens)
  /\ Validate(tokens, oauthTokens)

validateTimeWindow(startTime, endTime) ==
  /\ Truthy(startTime)
  /\ Truthy(endTime)
  /\ Validate(startTime, epochTime)
  /\ Validate(endTime, epochTime)
  /\ NumLess(startTime, endTime)

----------------------------------------------------------------------------
(* helpers.js: constants and the token lifecycle manager *)

millisecondsPerSecond == 1000
aboutToExpireThresholdSeconds == 60

\* the wall clock: Date.now() / new Date().getTime() at model time t
ClockBase == Big(0, 1586, 101155000)
DateNow(t) == BigNum(BigAdd(ClockBase, Big(0, 0, t)))

ExpiresInMs(env) ==
  Prop(Prop(env, "dexcomOAuthToken"), "expires_in").mag[3] * millisecondsPerSecond

\* the guard of refreshAccessToken: the envelope is returned as it is
RefreshUsable(env, force, t) ==
  /\ ~force
  /\ ~BigLeq(BigAdd(Prop(env, "timestamp").mag, Big(0, 0, ExpiresInMs(env))),
             BigAdd(DateNow(t).mag, Big(0, 0, aboutToExpireThresholdSeconds * millisecondsPerSecond)))

\* the names helpers.js binds at module scope (its require() lines)
HelpersModuleScope == {"assert", "Validator", "schema"}

\* the properties of the object refreshAccessToken is called on (this):
\* the exports of helpers.js, which has no property "options"
HelpersExports ==
  {"validateOptions", "validateSandboxAuthcode", "dexcomifyEpochTime",
   "validateTimeWindow", "validateOAuthTokens", "refreshAccessToken"}

\* The refresh branch of refreshAccessToken.  Its first statement evaluates
\* querystring.stringify({client_id: this.options.clientId, ...}): the
\* identifier querystring is unbound in helpers.js (ReferenceError), and
\* this.options is undefined (TypeError).  Either way the function throws
\* before a request is built or sent.
RefreshBranchError ==
  IF "querystring" \notin HelpersModuleScope THEN "ReferenceError"
  ELSE IF "options" \notin HelpersExports THEN "TypeError"
  ELSE "none"

----------------------------------------------------------------------------
(* JavaScript Date, on epoch milliseconds held as three-limb magnitudes     *)
(* below 2^31 seconds.  Calendar fields follow ECMAScript's Day,            *)
(* DayFromYear, YearFromTime, MonthFromTime and DateFromTime.               *)

BigLess(x, y) == ~BigLeq(y, x)

\* x - y for x >= y
BigSub(x, y) ==
  LET d3 == x[3] - y[3]
      b3 == IF d3 < 0 THEN 1 ELSE 0
      d2 == x[2] - y[2] - b3
      b2 == IF d2 < 0 THEN 1 ELSE 0
  IN  Big(x[1] - y[1] - b2, d2 + b2 * Limb, d3 + b3 * Limb)

\* a non-negative integer below 2^31 as a magnitude
FromInt(n) == Big(0, n \div Limb, n % Limb)

\* whole seconds and the milliseconds left over
EpochSeconds(m) == m[2] * 1000000 + m[3] \div 1000
MillisOf(m) == m[3] % 1000

secondsPerDay == 86400

DayFromYear(y) ==
  365 * (y - 1970) + (y - 1969) \div 4 - (y - 1901) \div 100 + (y - 1601) \div 400

\* the year of a day: a year has 365 or 366 days, so within a century of the
\* epoch the year is at most one away from 1970 + day / 365
YearFromDay(day) ==
  CHOOSE y \in 1969 + day \div 365 .. 1971 + day \div 365 :
    DayFromYear(y) <= day /\ day < DayFromYear(y + 1)

InLeapYear(y) == IF DayFromYear(y + 1) - DayFromYear(y) = 366 THEN 1 ELSE 0

\* the first day, within its year, of month m (0 = January .. 12 = next year)
MonthStart(m, leap) ==
  CASE m = 0 -> 0
    [] m = 1 -> 31
    [] OTHER -> <<59, 90, 120, 151, 181, 212, 243, 273, 304, 334, 365>>[m - 1] + leap

MonthFromDay(day) ==
  LET y == YearFromDay(day)
      within == day - DayFromYear(y)
  IN  CHOOSE m \in 0 .. 11 :
        MonthStart(m, InLeapYear(y)) <= within /\ within < MonthStart(m + 1, InLeapYear(y))

DateFromDay(day) ==
  LET y == YearFromDay(day)
  IN  day - DayFromYear(y) - MonthStart(MonthFromDay(day), InLeapYear(y)) + 1

Pad(n, width) ==
  LET digits == ToString(n)
  IN  CASE Len(digits) >= width     -> digits
        [] Len(digits) = width - 1  -> "0" \o digits
        [] Len(digits) = width - 2  -> "00" \o digits
        [] OTHER                    -> "000" \o digits

\* Date.prototype.toISOString: YYYY-MM-DDTHH:mm:ss.sssZ, in UTC
toISOString(m) ==
  LET secs == EpochSeconds(m)
      day  == secs \div secondsPerDay
      rest == secs % secondsPerDay
  IN  Pad(YearFromDay(day), 4) \o "-" \o Pad(MonthFromDay(day) + 1, 2) \o "-"
        \o Pad(DateFromDay(day), 2) \o "T" \o Pad(rest \div 3600, 2) \o ":"
        \o Pad((rest % 3600) \div 60, 2) \o ":" \o Pad(rest % 60, 2) \o "."
        \o Pad(MillisOf(m), 3) \o "Z"

\* days since the epoch of a calendar date (proleptic Gregorian)
DaysFromCivil(y, m, d) ==
  LET yy  == IF m <= 2 THEN y - 1 ELSE y
      era == yy \div 400
      yoe == yy - era * 400
      mp  == IF m > 2 THEN m - 3 ELSE m + 9
      doy == (153 * mp + 2) \div 5 + d - 1
      doe == yoe * 365 + yoe \div 4 - yoe \div 100 + doy
  IN  era * 146097 + doe - 719468

DigitValue(ch) ==
  CASE ch = "0" -> 0 [] ch = "1" -> 1 [] ch = "2" -> 2 [] ch = "3" -> 3 [] ch = "4" -> 4
    [] ch = "5" -> 5 [] ch = "6" -> 6 [] ch = "7" -> 7 [] ch = "8" -> 8 [] ch = "9" -> 9
    [] OTHER -> -1

RECURSIVE Digits(_, _, _)
\* the number written in characters from .. to of str, -1 if one is no digit
Digits(str, from, to) ==
  IF from > to THEN 0
  ELSE LET hi == Digits(str, from, to - 1)
           lo == DigitValue(SubSeq(str, to, to))
       IN  IF hi < 0 \/ lo < 0 THEN -1 ELSE hi * 10 + lo

\* the second a string YYYY-MM-DDThh:mm:ss denotes on a clock without offset,
\* -1 if the string has another shape
SecondsOfDateString(str) ==
  LET y  == Digits(str, 1, 4)
      mo == Digits(str, 6, 7)
      d  == Digits(str, 9, 10)
      h  == Digits(str, 12, 13)
      mi == Digits(str, 15, 16)
      sec == Digits(str, 18, 19)
  IN  IF \/ Len(str) # 19
         \/ \E n \in {y, mo, d, h, mi, sec} : n < 0
         \/ <<SubSeq(str, 5, 5), SubSeq(str, 8, 8), SubSeq(str, 11, 11),
              SubSeq(str, 14, 14), SubSeq(str, 17, 17)>> # <<"-", "-", "T", ":", ":">>
         \/ mo \notin 1 .. 12 \/ d \notin 1 .. 31 \/ h > 23 \/ mi > 59 \/ sec > 59
        THEN -1
        ELSE DaysFromCivil(y, mo, d) * 86400 + h * 3600 + mi * 60 + sec

\* The local time zone of the process: minutes east of UTC, no daylight saving
TimeZoneOffsets == {0 - 420, 0, 330}

\* a whole number of seconds as epoch milliseconds
SecondsToMs(secs) == Big(0, secs \div 1000000, (secs % 1000000) * 1000)

\* new Date(string).getTime() for a date-time string without offset: the
\* string is read as local time
DateParse(str, tz) == SecondsToMs(SecondsOfDateString(str) - tz * 60)

\* the date-time a clock in the local zone shows at instant m, to the second
LocalDateString(m, tz) ==
  SubSeq(toISOString(IF tz >= 0 THEN BigAdd(m, FromInt(tz * 60000))
                                ELSE BigSub(m, FromInt((0 - tz) * 60000))), 1, 19)

\* new Date(m).setHours(0, 0, 0, 0): the last local midnight
UtcMidnight(m, tz) ==
  BigSub(m, FromInt((EpochSeconds(m) % secondsPerDay) * 1000 + MillisOf(m)))
LocalMidnight(m, tz) ==
  BigSub(m, FromInt(((EpochSeconds(m) + tz * 60) % secondsPerDay) * 1000 + MillisOf(m)))

\* new Date(m).getDay(): the local day of the week, 0 = Sunday
GetDay(m, tz) == (((EpochSeconds(m) + tz * 60) \div secondsPerDay) + 4) % 7

\* DexcomJS.rangeInDayIntervals(dataRange, endTime, daysPast)
rangeInDayIntervalsUnclamped(dataRange, endTime, daysPast, tz) ==
  [startTime |-> BigNum(LocalMidnight(BigSub(endTime.mag, FromInt(daysPast * 86400 * 1000)), tz)),
   endTime |-> endTime, valid |-> TRUE]
rangeInDayIntervals(dataRange, endTime, daysPast, tz) ==
  LET startDateString    == dataRange.start.systemTime
      startTime          == BigSub(endTime.mag, FromInt(daysPast * 86400 * 1000))
      midnightStartTime  == LocalMidnight(startTime, tz)
      availableStartTime == DateParse(startDateString, tz)
  IN  [startTime |-> BigNum(IF BigLess(midnightStartTime, availableStartTime)
                              THEN availableStartTime ELSE midnightStartTime),
       endTime   |-> endTime,
       valid     |-> TRUE]

\* _.groupBy: a group per key, in the order the keys first appear, each with
\* its elements in iteration order
AddToGroup(groups, key, el) ==
  IF \E g \in DOMAIN groups : groups[g].key = key
    THEN [g \in DOMAIN groups |->
            IF groups[g].key = key THEN [groups[g] EXCEPT !.items = Append(@, el)]
                                   ELSE groups[g]]
    ELSE Append(groups, [key |-> key, items |-> <<el>>])

RECURSIVE ChunkFrom(_, _, _, _, _, _)
\* the iteratee of chunkDataByDay over data[i ..], with its closure variables
\* currentDay and currentTime
ChunkFrom(data, i, currentDay, currentTime, groups, tz) ==
  IF i > Len(data) THEN groups
  ELSE LET thisDate == data[i].epochTimeMilliSec.mag
           changed  == GetDay(thisDate, tz) # currentDay
           day      == IF changed THEN GetDay(thisDate, tz) ELSE currentDay
           time     == IF changed THEN thisDate ELSE currentTime
       IN  ChunkFrom(data, i + 1, day, time, AddToGroup(groups, time, data[i]), tz)

\* DexcomJS.chunkDataByDay(data); data[0] of an empty list is undefined
chunkDataByDay(data, tz) ==
  IF Len(data) = 0 THEN [threw |-> "TypeError", groups |-> <<>>]
  ELSE LET first == data[1].epochTimeMilliSec.mag
       IN  [threw |-> "none",
            groups |-> ChunkFrom(data, 1, GetDay(first, tz), first, <<>>, tz)]

\* input.sort((e1, e2) => e1ms - e2ms): el put after the elements not later
InsertByTime(sorted, el, tz) ==
  LET at == Cardinality({i \in DOMAIN sorted :
                 BigLeq(DateParse(sorted[i].systemTime, tz), DateParse(el.systemTime, tz))})
  IN  SubSeq(sorted, 1, at) \o <<el>> \o SubSeq(sorted, at + 1, Len(sorted))

RECURSIVE SortBySystemTime(_, _, _)
SortBySystemTime(input, n, tz) ==
  IF n = 0 THEN <<>> ELSE InsertByTime(SortBySystemTime(input, n - 1, tz), input[n], tz)

RECURSIVE ShardFrom(_, _, _, _)
ShardFrom(sortedInput, i, groups, tz) ==
  IF i > Len(sortedInput) THEN groups
  ELSE ShardFrom(sortedInput, i + 1,
                 AddToGroup(groups, LocalMidnight(DateParse(sortedInput[i].systemTime, tz), tz),
                            sortedInput[i]), tz)

\* DexcomJS.shardEgvsByDay(input)
shardEgvsByDay(input, opts, tz) ==
  IF ~validateOptions(opts) THEN [threw |-> "AssertionError", groups |-> <<>>]
  ELSE [threw |-> "none",
        groups |-> ShardFrom(SortBySystemTime(input, Len(input), tz), 1, <<>>, tz)]

\* helpers.dexcomifyEpochTime: new Date(epochTime).toISOString().slice(0, 19)
dexcomifyEpochTimeRounded(epochMs) ==
  SubSeq(toISOString(BigAdd(epochMs.mag, Big(0, 0, 500))), 1, 19)
dexcomifyEpochTime(epochMs) == SubSeq(toISOString(epochMs.mag), 1, 19)

----------------------------------------------------------------------------
(* options.js: the process-wide configuration *)

DefaultOptions ==
  Obj([clientId     |-> Str("", 0, FALSE),
       clientSecret |-> Str("", 0, FALSE),
       redirectUri  |-> Str("", 0, FALSE),
       apiUri       |-> Str("https://sandbox-api.dexcom.com", 30, TRUE)])

----------------------------------------------------------------------------
(* index.js: the operations *)

WindowedOps == {"getEstimatedGlucoseValues", "getEvents", "getCalibrations", "getStatistics"}
DataOps == WindowedOps \cup {"getDataRange"}

EndpointPath(op) ==
  CASE op = "getEstimatedGlucoseValues" -> "/v2/users/self/egvs"
    [] op = "getEvents"                 -> "/v2/users/self/events"
    [] op = "getDataRange"              -> "/v2/users/self/dataRange"
    [] op = "getCalibrations"           -> "/v2/users/self/calibrations"
    [] op = "getStatistics"             -> "/v2/users/self/statistics"

HttpMethod(op) == IF op = "getStatistics" THEN "POST" ELSE "GET"

SandboxTokenUrl == Str("https://sandbox-api.dexcom.com", 30, TRUE)

\* the envelope argument of a call: 0 is null, i > 0 the i-th heap object
EnvValue(h, i) == IF i = 0 THEN JSNull ELSE h[i]

\* the three validations that open every data-fetch operation
FetchInputsNoWindowCheck(op, opts, env, startTime, endTime) ==
  /\ validateOptions(opts)
  /\ validateOAuthTokens(env)
FetchInputsValid(op, opts, env, startTime, endTime) ==
  /\ validateOptions(opts)
  /\ validateOAuthTokens(env)
  /\ op \in WindowedOps => validateTimeWindow(startTime, endTime)

SandboxInputsNoOptionsCheck(opts, authcode) == validateSandboxAuthcode(authcode)
SandboxInputsValid(opts, authcode) ==
  /\ validateOptions(opts)
  /\ validateSandboxAuthcode(authcode)

NoResult == [payload |-> FALSE, hasTokens |-> FALSE, tokens |-> 0]

\* const returnValue = {<category>: result.data};
\* if (possiblyRefreshedOauthTokens !== oauthTokens) returnValue['oauthTokens'] = ...
ReturnValueAlwaysTokens(refreshed, supplied) ==
  [payload |-> TRUE, hasTokens |-> TRUE, tokens |-> refreshed]
ReturnValue(refreshed, supplied) ==
  IF refreshed # supplied
    THEN [payload |-> TRUE, hasTokens |-> TRUE, tokens |-> refreshed]
    ELSE [payload |-> TRUE, hasTokens |-> FALSE, tokens |-> 0]

\* where an operation goes when the promise it awaits is rejected
AfterRefreshRejectedFallback == "request"
AfterRefreshRejected == "reject"
AfterDataRejectedRetry == "request"
AfterDataRejected == "reject"

\* the heap as an operation that only reads an envelope leaves it
HeapTouched(h, i, t) ==
  IF i \in DOMAIN h /\ h[i].t = "object"
    THEN [h EXCEPT ![i] = Obj([h[i].props EXCEPT !.timestamp = t])]
    ELSE h
HeapRead(h, i, t) == h

IdleCall ==
  [pc |-> "idle", op |-> "none", env |-> 0, force |-> FALSE,
   startTime |-> Undefined, endTime |-> Undefined, authcode |-> Undefined,
   checkedAt |-> 0, usable |-> FALSE, refreshed |-> 0,
   refreshError |-> "none", dataError |-> "none", requests |-> <<>>,
   status |-> "pending", error |-> "none", result |-> NoResult, envelope |-> 0,
   times |-> <<>>, responses |-> <<>>, arrivals |-> <<>>, data |-> Undefined,
   config |-> Undefined]

Calls == 1 .. MaxCalls

DataRequestSandboxHost(op, base, token) ==
  [kind |-> "data", method |-> HttpMethod(op), base |-> SandboxTokenUrl,
   path |-> EndpointPath(op), bearer |-> token]
DataRequest(op, base, token) ==
  [kind |-> "data", method |-> HttpMethod(op), base |-> base,
   path |-> EndpointPath(op), bearer |-> token]

TokenRequest(base, grant) ==
  [kind |-> grant, method |-> "POST", base |-> base,
   path |-> "/v2/oauth2/token", bearer |-> Undefined]

----------------------------------------------------------------------------
(* Inputs *)

DexcomToken(tag, expiresIn) ==
  Obj([access_token  |-> Str("access-" \o tag, 32, FALSE),
       expires_in    |-> Num(expiresIn),
       token_type    |-> Str("Bearer", 6, FALSE),
       refresh_token |-> Str("refresh-" \o tag, 32, FALSE)])

\* a token-endpoint body that is no token (an error document)
MalformedToken ==
  Obj([access_token  |-> Undefined, expires_in |-> Undefined,
       token_type    |-> Undefined, refresh_token |-> Undefined])

Envelope(timestamp, token) == Obj([timestamp |-> timestamp, dexcomOAuthToken |-> token])

\* The envelope the caller holds at the start.  It was minted 999 ms before
\* ClockBase with 61 s to live: at ClockBase it has 60001 ms left, one
\* millisecond later exactly 60000 ms.
InitialHeap ==
  << Envelope(BigNum(Big(0, 1586, 101154001)), DexcomToken("A", 61)) >>

ProviderTokens == {DexcomToken("B", 7200), MalformedToken}

\* a zero start, a proper window and an empty window, all ending at MaxWindow
CallWindows == {<<Num(s), Num(MaxWindow)>> : s \in {0, MaxWindow - 1, MaxWindow}}

Authcodes == {Str("authcode1", 9, FALSE), Str("authcode7", 9, FALSE)}

ValidOptions ==
  Obj([clientId     |-> Str("jitzdjgkgzocbygphnzgpgeibqrybaxj", 32, FALSE),
       clientSecret |-> Str("dnnukiodacexkmum", 16, FALSE),
       redirectUri  |-> Str("https://foo.bar.com", 19, TRUE),
       apiUri       |-> Str("https://api.dexcom.com", 22, TRUE)])

TooLongClientId ==
  Obj([clientId     |-> Str("This client ID is too long and should be rejected.", 50, FALSE),
       clientSecret |-> Str("dnnukiodacexkmum", 16, FALSE),
       redirectUri  |-> Str("https://foo.bar.com", 19, TRUE),
       apiUri       |-> Str("https://api.dexcom.com", 22, TRUE)])

OptionArgs == {ValidOptions, TooLongClientId}

\* the configuration of the tests, for the sandbox
SandboxOptions ==
  Obj([clientId     |-> Str("your client ID", 14, FALSE),
       clientSecret |-> Str("your secret", 11, FALSE),
       redirectUri  |-> Str("https://foo.bar.com", 19, TRUE),
       apiUri       |-> Str("https://sandbox-api.dexcom.com", 30, TRUE)])

\* a configuration without its secret
NoClientSecret ==
  Obj([clientId     |-> Str("your client ID", 14, FALSE),
       redirectUri  |-> Str("https://foo.bar.com", 19, TRUE),
       apiUri       |-> Str("https://sandbox-api.dexcom.com", 30, TRUE)])

\* what setOptions may be called with when the configuration is replaced
\* while the package is in use
ConfigArgs == OptionArgs \cup {SandboxOptions, NoClientSecret, JSNull, Undefined}

\* a response body without content: what the token handling is followed with
EmptyBody == Obj(<<>>)

NoProbe == [fn |-> "none", a |-> Undefined, b |-> Undefined, returned |-> FALSE]

----------------------------------------------------------------------------
(* The state machine *)

Init ==
  /\ options = DefaultOptions
  /\ now = 0
  /\ heap = InitialHeap
  /\ calls = [c \in Calls |-> IdleCall]
  /\ probe = NoProbe

\* options.set(newOptions): validate, then replace; what it throws and what is
\* stored afterwards
setUnvalidated(stored, newOptions) == [threw |-> "none", options |-> newOptions]
set(stored, newOptions) ==
  IF validateOptions(newOptions)
    THEN [threw |-> "none", options |-> newOptions]
    ELSE [threw |-> "AssertionError", options |-> stored]

\* DexcomJS.setOptions -> options.set
SetOptions(newOptions) ==
  /\ options' = set(options, newOptions).options
  /\ UNCHANGED <<now, heap, calls, probe>>

\* the wall clock advances
Tick ==
  /\ now < MaxNow
  /\ now' = now + 1
  /\ UNCHANGED <<options, heap, calls, probe>>

\* slots are taken in order: the calls in flight are an initial segment
Free(c) ==
  /\ calls[c].pc = "idle"
  /\ \A d \in Calls : d < c => calls[d].pc # "idle"

SettleWithTokens(call, status, error) ==
  [call EXCEPT !.pc = "done", !.status = status, !.error = error,
               !.result = [payload |-> FALSE, hasTokens |-> call.refreshed # call.env,
                           tokens |-> call.refreshed]]
Settle(call, status, error) ==
  [call EXCEPT !.pc = "done", !.status = status, !.error = error]

\* A data-fetch operation from its call to its first await: the validations,
\* then the synchronous part of helpers.refreshAccessToken(oauthTokens, false).
InvokeFetch(c, op, e, w) ==
  /\ Free(c)
  /\ LET env  == EnvValue(heap, e)
         call == [IdleCall EXCEPT !.op = op, !.env = e,
                                  !.startTime = w[1], !.endTime = w[2]]
     IN  IF ~FetchInputsValid(op, options, env, w[1], w[2])
           THEN calls' = [calls EXCEPT ![c] = Settle(call, "rejected", "AssertionError")]
           ELSE LET u == RefreshUsable(env, FALSE, now) IN
                calls' = [calls EXCEPT ![c] =
                            [call EXCEPT !.pc = "awaitRefresh", !.checkedAt = now,
                                         !.config = options,
                                         !.usable = u,
                                         !.refreshed = IF u THEN e ELSE 0,
                                         !.refreshError = IF u THEN "none" ELSE RefreshBranchError]]
  /\ heap' = HeapRead(heap, e, DateNow(now))
  /\ UNCHANGED <<options, now, probe>>

\* The operation resumes after `await helpers.refreshAccessToken(...)`: a
\* rejection rejects the operation; otherwise the data request is issued with
\* the returned envelope's access token, under options.get().apiUri.
ResumeAfterRefresh(c) ==
  /\ calls[c].pc = "awaitRefresh"
  /\ LET call == calls[c]
         failed == call.refreshError # "none"
         tokens == IF failed THEN call.env ELSE call.refreshed
     IN  IF failed /\ AfterRefreshRejected = "reject"
           THEN calls' = [calls EXCEPT ![c] = Settle(call, "rejected", call.refreshError)]
           ELSE calls' = [calls EXCEPT ![c] =
                  [call EXCEPT !.pc = "awaitData",
                               !.requests = Append(@,
                                  DataRequest(call.op, Prop(options, "apiUri"),
                                    Prop(Prop(heap[tokens], "dexcomOAuthToken"), "access_token")))]]
  /\ UNCHANGED <<options, now, heap, probe>>

\* the provider answers the data request with body `data`: the result is
\* built, with result.data as its category field, and returned
DataResolved(c, data) ==
  /\ calls[c].pc = "awaitData"
  /\ calls' = [calls EXCEPT ![c] =
        [Settle(calls[c], "fulfilled", "none") EXCEPT
            !.result = ReturnValue(calls[c].refreshed, calls[c].env),
            !.data = data]]
  /\ UNCHANGED <<options, now, heap, probe>>

\* the data request fails (4xx/5xx or a network error): httpClient rejects
DataRejected(c) ==
  /\ calls[c].pc = "awaitData"
  /\ LET call == calls[c] IN
     IF AfterDataRejected = "reject"
       THEN calls' = [calls EXCEPT ![c] =
              [Settle(call, "rejected", "HttpError") EXCEPT !.dataError = "HttpError"]]
       ELSE calls' = [calls EXCEPT ![c] =
              [call EXCEPT !.dataError = "HttpError",
                           !.requests = Append(@, call.requests[Len(call.requests)])]]
  /\ UNCHANGED <<options, now, heap, probe>>

AwaitingToken == {c \in Calls : calls[c].pc = "awaitToken"}

\* getSandboxAuthenticationToken from its call to its await
InvokeSandbox(c, authcode) ==
  /\ Free(c)
  /\ Len(heap) + Cardinality(AwaitingToken) < MaxHeap
  /\ LET call == [IdleCall EXCEPT !.op = "getSandboxAuthenticationToken",
                                  !.authcode = authcode]
     IN  IF ~SandboxInputsValid(options, authcode)
           THEN calls' = [calls EXCEPT ![c] = Settle(call, "rejected", "AssertionError")]
           ELSE calls' = [calls EXCEPT ![c] =
                  [call EXCEPT !.pc = "awaitToken",
                               !.requests = <<TokenRequest(SandboxTokenUrl, "authorization_code")>>]]
  /\ UNCHANGED <<options, now, heap, probe>>

\* the token endpoint answers 2xx with body `data`: a new envelope is returned
TokenResolved(c, data) ==
  /\ calls[c].pc = "awaitToken"
  /\ heap' = Append(heap, Envelope(DateNow(now), data))
  /\ calls' = [calls EXCEPT ![c] =
        [Settle(calls[c], "fulfilled", "none") EXCEPT !.envelope = Len(heap) + 1]]
  /\ UNCHANGED <<options, now, probe>>

TokenRejected(c) ==
  /\ calls[c].pc = "awaitToken"
  /\ calls' = [calls EXCEPT ![c] = Settle(calls[c], "rejected", "HttpError")]
  /\ UNCHANGED <<options, now, heap, probe>>

ValidEnvelopes == {i \in 1 .. Len(heap) : validateOAuthTokens(heap[i])}

\* helpers.refreshAccessToken(oauthTokens, force) called on its own
InvokeRefresh(c, e, force) ==
  /\ Free(c)
  /\ e \in ValidEnvelopes
  /\ LET call == [IdleCall EXCEPT !.op = "refreshAccessToken", !.env = e,
                                  !.force = force,
                                  !.checkedAt = now]
         u == RefreshUsable(heap[e], force, now)
     IN  IF u
           THEN calls' = [calls EXCEPT ![c] =
                  [Settle(call, "fulfilled", "none") EXCEPT
                      !.usable = TRUE, !.refreshed = e, !.envelope = e]]
           ELSE calls' = [calls EXCEPT ![c] =
                  [Settle(call, "rejected", RefreshBranchError) EXCEPT
                      !.refreshError = RefreshBranchError]]
  /\ heap' = HeapRead(heap, e, DateNow(now))
  /\ UNCHANGED <<options, now, probe>>

\* the caller takes the settled promise; the slot serves the next call
Collect(c) ==
  /\ calls[c].pc = "done"
  /\ calls' = [calls EXCEPT ![c] = IdleCall]
  /\ UNCHANGED <<options, now, heap, probe>>

Next ==
  \/ \E o \in OptionArgs : SetOptions(o)
  \/ Tick
  \/ \E c \in Calls, op \in WindowedOps, e \in 0 .. Len(heap), w \in CallWindows :
        InvokeFetch(c, op, e, w)
  \/ \E c \in Calls, e \in 0 .. Len(heap) :
        InvokeFetch(c, "getDataRange", e, <<Undefined, Undefined>>)
  \/ \E c \in Calls : ResumeAfterRefresh(c)
  \/ \E c \in Calls : DataResolved(c, EmptyBody)
  \/ \E c \in Calls : DataRejected(c)
  \/ \E c \in Calls, a \in Authcodes : InvokeSandbox(c, a)
  \/ \E c \in Calls, d \in ProviderTokens : TokenResolved(c, d)
  \/ \E c \in Calls : TokenRejected(c)
  \/ \E c \in Calls, e \in 1 .. Len(heap), f \in BOOLEAN : InvokeRefresh(c, e, f)
  \/ \E c \in Calls : Collect(c)

Spec == Init /\ [][Next]_vars

----------------------------------------------------------------------------
(* The configuration replaced while the package is in use *)

NextConfigure ==
  \/ \E o \in ConfigArgs : SetOptions(o)
  \/ Tick
  \/ \E c \in Calls, op \in WindowedOps, e \in 0 .. Len(heap), w \in CallWindows :
        InvokeFetch(c, op, e, w)
  \/ \E c \in Calls, e \in 0 .. Len(heap) :
        InvokeFetch(c, "getDataRange", e, <<Undefined, Undefined>>)
  \/ \E c \in Calls : ResumeAfterRefresh(c)
  \/ \E c \in Calls : DataResolved(c, EmptyBody)
  \/ \E c \in Calls : DataRejected(c)
  \/ \E c \in Calls : Collect(c)

SpecConfigure == Init /\ [][NextConfigure]_vars

----------------------------------------------------------------------------
(* index.js in its revision with sandbox user names and long date ranges:   *)
(* getSandboxAuthenticationToken(user) and                                  *)
(* getEstimatedGlucoseValuesAnyDateRange(oauthTokens, startTime, endTime).  *)
(* Its configuration is the property DexcomJS.options, set by setOptions    *)
(* exactly as options.set does.                                             *)

NameDigits == {"0", "1", "2", "3", "4", "5", "6", "7"}
NamePrefixes == {"authcode", "SandboxUser"}

\* user.substring(user.length - 1), on names that are a prefix and a digit
LastLetter(user) ==
  CHOOSE d \in NameDigits : \E p \in NamePrefixes : user.tag = p \o d

\* user.includes(word), on names that are a prefix and a digit
Includes(user, word) == \E d \in NameDigits : user.tag = word \o d

\* the userId of the consent form: 'authcodeN' becomes 'SandboxUserN'
UserIdFor(user) ==
  IF Includes(user, "authcode") THEN "SandboxUser" \o LastLetter(user) ELSE user.tag

ConsentUrl == Str("https://developer-portal-dot-g5-dexcom-prod-us-5.appspot.com", 60, TRUE)

ConsentRequest(userId) ==
  [kind |-> "consent", method |-> "POST", base |-> ConsentUrl,
   path |-> "/consent", bearer |-> Undefined, userId |-> userId]

\* const maxTimeRangeMilliSec = 89 * 86400 * 1000  (7 689 600 000)
maxTimeRangeMilliSec == Big(0, 7, 689600000)

RECURSIVE SplitTimes(_, _)
\* the while loop that fills `times`, from timeIndex on
SplitTimes(timeIndex, endTime) ==
  IF ~BigLeq(timeIndex, endTime) THEN <<>>
  ELSE LET next == BigAdd(timeIndex, maxTimeRangeMilliSec)
           endTimeWindow == IF BigLeq(next, endTime) THEN next ELSE endTime
       IN  <<[startTime |-> BigNum(timeIndex), endTime |-> BigNum(endTimeWindow)]>>
             \o SplitTimes(next, endTime)

\* the request times.map builds for one sub-window
RangeRequest(base, token, el) ==
  [kind |-> "data", method |-> "GET", base |-> base, path |-> "/v2/users/self/egvs",
   bearer |-> token, startDate |-> dexcomifyEpochTime(el.startTime),
   endDate |-> dexcomifyEpochTime(el.endTime)]

Pending == [state |-> "pending", value |-> Undefined]
Fulfilled(value) == [state |-> "fulfilled", value |-> value]
Rejected == [state |-> "rejected", value |-> Undefined]

Array(items) == [t |-> "array", items |-> items]

\* a.concat(v): the elements of an array, any other value as one element
Concat(a, v) == IF v.t = "array" THEN a \o v.items ELSE Append(a, v)

RECURSIVE ConcatEgvs(_, _)
\* results.reduce((a, el) => a.concat(el.data.egvs), []), over the first n results
ConcatEgvs(results, n) ==
  IF n = 0 THEN <<>>
  ELSE Concat(ConcatEgvs(results, n - 1), Prop(Prop(results[n], "data"), "egvs"))

\* the same records taken in the order the responses arrived
RECURSIVE ConcatEgvsByArrival(_, _, _)
ConcatEgvsByArrival(results, arrivals, n) ==
  IF n = 0 THEN <<>>
  ELSE Concat(ConcatEgvsByArrival(results, arrivals, n - 1),
              Prop(Prop(results[arrivals[n]], "data"), "egvs"))

combinedEgvsByArrival(results, arrivals) == ConcatEgvsByArrival(results, arrivals, Len(results))
combinedEgvs(results, arrivals) == ConcatEgvs(results, Len(results))

\* the value returned by getEstimatedGlucoseValuesAnyDateRange
RangeReturnValue(results, arrivals, refreshed, supplied) ==
  [payload |-> TRUE,
   hasTokens |-> refreshed # supplied,
   tokens |-> IF refreshed # supplied THEN refreshed ELSE 0,
   estimatedGlucoseValues |->
     [unit     |-> Prop(results[1], "unit"),
      rateUnit |-> Prop(results[1], "rateUnit"),
      egvs     |-> combinedEgvs(results, arrivals)]]

\* what `await Promise.all(requests)` does when one request is rejected
AfterSubRejectedSkip == "skip"
AfterSubRejected == "reject"

SandboxUsers ==
  {Str("authcode1", 9, FALSE), Str("SandboxUser2", 12, FALSE), Str("authcode7", 9, FALSE)}

\* getSandboxAuthenticationToken(user) from its call to its first await
InvokeSandboxUser(c, user) ==
  /\ Free(c)
  /\ Len(heap) + Cardinality({d \in Calls : calls[d].pc \in {"awaitConsent", "awaitToken"}}) < MaxHeap
  /\ LET call == [IdleCall EXCEPT !.op = "getSandboxAuthenticationToken",
                                  !.authcode = user]
     IN  IF ~SandboxInputsValid(options, user)
           THEN calls' = [calls EXCEPT ![c] = Settle(call, "rejected", "AssertionError")]
           ELSE calls' = [calls EXCEPT ![c] =
                  [call EXCEPT !.pc = "awaitConsent",
                               !.requests = <<ConsentRequest(UserIdFor(user))>>]]
  /\ UNCHANGED <<options, now, heap, probe>>

\* the consent page answers with an authCode: the token exchange is posted
ConsentResolved(c) ==
  /\ calls[c].pc = "awaitConsent"
  /\ calls' = [calls EXCEPT ![c] =
        [@ EXCEPT !.pc = "awaitToken",
                  !.requests = Append(@, TokenRequest(SandboxTokenUrl, "authorization_code"))]]
  /\ UNCHANGED <<options, now, heap, probe>>

ConsentRejected(c) ==
  /\ calls[c].pc = "awaitConsent"
  /\ calls' = [calls EXCEPT ![c] = Settle(calls[c], "rejected", "HttpError")]
  /\ UNCHANGED <<options, now, heap, probe>>

RangeOp == "getEstimatedGlucoseValuesAnyDateRange"

\* one long-range call is followed at a time: calls share nothing but the
\* configuration and the envelopes, which they only read
RangeCalls == {1}

RECURSIVE BigScale(_, _)
\* n * x
BigScale(n, x) == IF n = 0 THEN Big(0, 0, 0) ELSE BigAdd(BigScale(n - 1, x), x)

\* 2015-11-18T15:00:00Z, the start of the sandbox data
RangeStart == Big(0, 1447, 858800000)
TwoHundredDays == Big(0, 17, 280000000)

RangeSpans ==
  ({BigAdd(BigScale(k, maxTimeRangeMilliSec), Big(0, 0, r)) : k \in 0 .. MaxSpanChunks, r \in {0, 1}}
     \ {Big(0, 0, 0)}) \cup {TwoHundredDays}

\* valid windows of every span, and one empty window
RangeWindows ==
  {<<BigNum(RangeStart), BigNum(BigAdd(RangeStart, span))>> : span \in RangeSpans}
    \cup {<<BigNum(RangeStart), BigNum(RangeStart)>>}

GlucoseUnits == {"mg/dL", "mmol/L"}

\* the provider's answer to the request for sub-window i: an axios response
\* whose data is {unit, rateUnit, egvs}
EgvsResponse(i, unit) ==
  Obj([status |-> Num(200),
       data   |-> Obj([unit     |-> Str(unit, Len(unit), FALSE),
                       rateUnit |-> Str(unit \o "/min", Len(unit) + 4, FALSE),
                       egvs     |-> Array(<<[sub |-> i, n |-> 1], [sub |-> i, n |-> 2]>>)])])

\* getEstimatedGlucoseValuesAnyDateRange from its call to its first await
InvokeAnyDateRange(c, e, w) ==
  /\ Free(c)
  /\ LET env  == EnvValue(heap, e)
         call == [IdleCall EXCEPT !.op = RangeOp, !.env = e,
                                  !.startTime = w[1], !.endTime = w[2]]
     IN  IF ~(validateOptions(options) /\ validateOAuthTokens(env)
                /\ validateTimeWindow(w[1], w[2]))
           THEN calls' = [calls EXCEPT ![c] = Settle(call, "rejected", "AssertionError")]
           ELSE calls' = [calls EXCEPT ![c] =
                  [call EXCEPT !.pc = "awaitRefresh", !.checkedAt = now,
                               !.usable = RefreshUsable(env, FALSE, now)]]
  /\ UNCHANGED <<options, now, heap, probe>>

\* the code from the first await to `await Promise.all(requests)`: the window
\* is split and every sub-window's request is sent
IssueRangeRequestsStaleToken(call, tokens, h) ==
  LET times == SplitTimes(call.startTime.mag, call.endTime.mag)
      token == Prop(Prop(h[call.env], "dexcomOAuthToken"), "access_token")
  IN  [call EXCEPT !.pc = "awaitAll", !.refreshed = tokens, !.times = times,
                   !.requests = [i \in 1 .. Len(times) |->
                                    RangeRequest(Prop(options, "apiUri"), token, times[i])],
                   !.responses = [i \in 1 .. Len(times) |-> Pending]]
IssueRangeRequests(call, tokens, h) ==
  LET times == SplitTimes(call.startTime.mag, call.endTime.mag)
      token == Prop(Prop(h[tokens], "dexcomOAuthToken"), "access_token")
  IN  [call EXCEPT !.pc = "awaitAll", !.refreshed = tokens, !.times = times,
                   !.requests = [i \in 1 .. Len(times) |->
                                    RangeRequest(Prop(options, "apiUri"), token, times[i])],
                   !.responses = [i \in 1 .. Len(times) |-> Pending]]

\* helpers.refreshAccessToken(this.options, oauthTokens, false) returns the
\* envelope it was given
RangeRefreshKept(c) ==
  /\ calls[c].op = RangeOp /\ calls[c].pc = "awaitRefresh" /\ calls[c].usable
  /\ calls' = [calls EXCEPT ![c] = IssueRangeRequests(calls[c], calls[c].env, heap)]
  /\ UNCHANGED <<options, now, heap, probe>>

\* ... or exchanges the refresh token and returns a new envelope
RangeRefreshExchanged(c, data) ==
  /\ calls[c].op = RangeOp /\ calls[c].pc = "awaitRefresh" /\ ~calls[c].usable
  /\ Len(heap) < MaxHeap
  /\ heap' = Append(heap, Envelope(DateNow(now), data))
  /\ calls' = [calls EXCEPT ![c] = IssueRangeRequests(calls[c], Len(heap) + 1, heap')]
  /\ UNCHANGED <<options, now, probe>>

\* ... or fails
RangeRefreshRejected(c) ==
  /\ calls[c].op = RangeOp /\ calls[c].pc = "awaitRefresh" /\ ~calls[c].usable
  /\ calls' = [calls EXCEPT ![c] =
        [Settle(calls[c], "rejected", "HttpError") EXCEPT !.refreshError = "HttpError"]]
  /\ UNCHANGED <<options, now, heap, probe>>

\* the values of the fulfilled requests, in the order of the requests
ResultsOf(responses) ==
  LET done == SelectSeq(responses, LAMBDA r : r.state = "fulfilled")
  IN  [i \in 1 .. Len(done) |-> done[i].value]

\* Promise.all and the code after it: rejected as soon as one request is
\* rejected, fulfilled when all are fulfilled, pending otherwise
AfterResponse(call, responses, arrivals) ==
  LET waiting == [call EXCEPT !.responses = responses, !.arrivals = arrivals]
  IN  IF call.pc # "awaitAll" THEN waiting
      ELSE IF AfterSubRejected = "reject" /\ \E i \in DOMAIN responses : responses[i].state = "rejected"
        THEN [Settle(waiting, "rejected", "HttpError") EXCEPT !.dataError = "HttpError"]
      ELSE IF \E i \in DOMAIN responses : responses[i].state = "pending"
        THEN waiting
      \* results[0].unit of an empty results list throws
      ELSE IF ResultsOf(responses) = <<>>
        THEN Settle(waiting, "rejected", "TypeError")
      ELSE [Settle(waiting, "fulfilled", "none") EXCEPT
              !.result = RangeReturnValue(ResultsOf(responses), arrivals, call.refreshed, call.env)]

\* the provider answers the request of sub-window i
SubResolved(c, i, unit) ==
  /\ calls[c].op = RangeOp /\ calls[c].pc \in {"awaitAll", "done"}
  /\ i \in DOMAIN calls[c].responses /\ calls[c].responses[i].state = "pending"
  /\ calls' = [calls EXCEPT ![c] =
        AfterResponse(calls[c], [calls[c].responses EXCEPT ![i] = Fulfilled(EgvsResponse(i, unit))],
                      Append(calls[c].arrivals, i))]
  /\ UNCHANGED <<options, now, heap, probe>>

\* the request of sub-window i fails
SubRejected(c, i) ==
  /\ calls[c].op = RangeOp /\ calls[c].pc \in {"awaitAll", "done"}
  /\ i \in DOMAIN calls[c].responses /\ calls[c].responses[i].state = "pending"
  /\ calls' = [calls EXCEPT ![c] =
        AfterResponse(calls[c], [calls[c].responses EXCEPT ![i] = Rejected],
                      Append(calls[c].arrivals, i))]
  /\ UNCHANGED <<options, now, heap, probe>>

NextAnyDateRange ==
  \/ \E o \in OptionArgs : SetOptions(o)
  \/ Tick
  \/ \E c \in RangeCalls, u \in SandboxUsers : InvokeSandboxUser(c, u)
  \/ \E c \in RangeCalls : ConsentResolved(c)
  \/ \E c \in RangeCalls : ConsentRejected(c)
  \/ \E c \in RangeCalls, d \in ProviderTokens : TokenResolved(c, d)
  \/ \E c \in RangeCalls : TokenRejected(c)
  \/ \E c \in RangeCalls, e \in 0 .. Len(heap), w \in RangeWindows : InvokeAnyDateRange(c, e, w)
  \/ \E c \in RangeCalls : RangeRefreshKept(c)
  \/ \E c \in RangeCalls, d \in ProviderTokens : RangeRefreshExchanged(c, d)
  \/ \E c \in RangeCalls : RangeRefreshRejected(c)
  \/ \E c \in RangeCalls, i \in 1 .. MaxSpanChunks + 2, u \in GlucoseUnits : SubResolved(c, i, u)
  \/ \E c \in RangeCalls, i \in 1 .. MaxSpanChunks + 2 : SubRejected(c, i)
  \/ \E c \in RangeCalls : Collect(c)

SpecAnyDateRange == Init /\ [][NextAnyDateRange]_vars

----------------------------------------------------------------------------
(* The validators on their own: each is applied to arguments drawn from a   *)
(* bounded set, once, and the outcome is recorded in probe.                 *)

RealEpoch == BigNum(Big(0, 1586, 101155000))

TimeArgs == {Undefined, JSNull, RealEpoch} \cup {Num(n) : n \in -1 .. MaxProbeInt}

LengthSamples(max) == {Str("s", n, FALSE) : n \in {0, 1, max, max + 1}}

UriSamples ==
  {Str("", 0, FALSE), Str("not a URI", 9, FALSE), Str("https://foo.bar.com", 19, TRUE)}

OptionCandidates ==
  {Undefined, JSNull} \cup
  {Obj([clientId |-> a, clientSecret |-> b, redirectUri |-> c, apiUri |-> d]) :
     a \in {Undefined} \cup LengthSamples(32),
     b \in {Undefined} \cup LengthSamples(16),
     c \in {Undefined} \cup UriSamples,
     d \in {Undefined} \cup UriSamples}

TokenCandidates ==
  {Undefined} \cup
  {Obj([access_token |-> a, expires_in |-> e, token_type |-> t, refresh_token |-> r]) :
     a \in {Undefined} \cup LengthSamples(1024),
     e \in {Undefined, Num(-1), Num(0), Num(7200), Num(7201)},
     t \in {Undefined} \cup LengthSamples(6),
     r \in {Undefined} \cup LengthSamples(1024)}

EnvelopeCandidates ==
  {Undefined, JSNull} \cup
  {Envelope(ts, tok) :
     ts \in {Undefined, Num(-1), Num(0), Num(10000), RealEpoch},
     tok \in TokenCandidates}

\* the arguments tried on validateSandboxAuthcode: the codes of the tests
\* (authcode0 .. authcode7), the empty string, a user name, a number, no value
AuthcodeCandidates ==
  {Undefined, JSNull, Str("", 0, FALSE), Str("SandboxUser1", 12, FALSE), Num(1), Num(0)} \cup
  {Str(tag, 9, FALSE) :
     tag \in {"authcode0", "authcode1", "authcode2", "authcode3", "authcode4",
              "authcode5", "authcode6", "authcode7"}}

ProbeValidateTimeWindow(startTime, endTime) ==
  /\ probe = NoProbe
  /\ probe' = [fn |-> "validateTimeWindow", a |-> startTime, b |-> endTime,
               returned |-> validateTimeWindow(startTime, endTime)]
  /\ UNCHANGED <<options, now, heap, calls>>

ProbeValidateOptions(candidate) ==
  /\ probe = NoProbe
  /\ probe' = [fn |-> "validateOptions", a |-> candidate, b |-> Undefined,
               returned |-> validateOptions(candidate)]
  /\ UNCHANGED <<options, now, heap, calls>>

ProbeValidateOAuthTokens(candidate) ==
  /\ probe = NoProbe
  /\ probe' = [fn |-> "validateOAuthTokens", a |-> candidate, b |-> Undefined,
               returned |-> validateOAuthTokens(candidate)]
  /\ UNCHANGED <<options, now, heap, calls>>

ProbeValidateSandboxAuthcode(candidate) ==
  /\ probe = NoProbe
  /\ probe' = [fn |-> "validateSandboxAuthcode", a |-> candidate, b |-> Undefined,
               returned |-> validateSandboxAuthcode(candidate)]
  /\ UNCHANGED <<options, now, heap, calls>>

NextValidators ==
  \/ \E a \in AuthcodeCandidates : ProbeValidateSandboxAuthcode(a)
  \/ \E s \in TimeArgs, e \in TimeArgs : ProbeValidateTimeWindow(s, e)
  \/ \E o \in OptionCandidates : ProbeValidateOptions(o)
  \/ \E t \in EnvelopeCandidates : ProbeValidateOAuthTokens(t)

SpecValidators == Init /\ [][NextValidators]_vars

----------------------------------------------------------------------------
(* The date functions on their own: dexcomifyEpochTime, rangeInDayIntervals,*)
(* chunkDataByDay and shardEgvsByDay applied once to bounded arguments.     *)

\* 2020-04-05T15:39:15Z, 2015-11-18T15:00:00Z, the last second of a leap
\* February, the first second of a year, the epoch and 2000-02-29T00:00:00Z
DateSeconds == {1586101155, 1447858800, 1583020799, 1609459200, 0, 951782400}

\* milliseconds within the second
DateMillis == {0, 1, 499, 500, 999}

EpochTimes ==
  {BigNum(BigAdd(Big(0, s \div 1000000, (s % 1000000) * 1000), Big(0, 0, ms + k))) :
     s \in DateSeconds, ms \in DateMillis, k \in 0 .. MaxMillisStep}

ProbeDexcomifyEpochTime(epochMs) ==
  /\ probe = NoProbe
  /\ probe' = [fn |-> "dexcomifyEpochTime", a |-> epochMs, b |-> Undefined,
               returned |-> dexcomifyEpochTime(epochMs)]
  /\ UNCHANGED <<options, now, heap, calls>>

\* the earliest record of the data range: 2015-11-18T15:00:00Z and
\* 2015-11-18T00:00:00Z
EarliestTimes == {Big(0, 1447, 858800000), Big(0, 1447, 804800000)}

\* target end times, as days and milliseconds after the earliest record; the
\* first is the time of the earliest record itself
EndOffsets == {FromInt(0), FromInt(6 * 86400 * 1000), FromInt(7 * 86400 * 1000),
               FromInt(8 * 86400 * 1000 + 12345678)}

\* results.dataRange.egvs as the provider reports it: date-time strings
\* without offset
DataRangeFrom(earliest, latest, tz) ==
  [start |-> [systemTime |-> LocalDateString(earliest, tz)],
   end   |-> [systemTime |-> LocalDateString(latest, tz)]]

ProbeRangeInDayIntervals(earliest, offset, daysPast, tz) ==
  /\ probe = NoProbe
  /\ LET endTime   == BigNum(BigAdd(earliest, offset))
         dataRange == DataRangeFrom(earliest, BigAdd(earliest, FromInt(8 * 86400 * 1000 + 12345678)), tz)
     IN  probe' = [fn |-> "rangeInDayIntervals",
                   a |-> [dataRange |-> dataRange, endTime |-> endTime, daysPast |-> daysPast,
                          tz |-> tz, earliest |-> earliest],
                   b |-> Undefined,
                   returned |-> rangeInDayIntervals(dataRange, endTime, daysPast, tz)]
  /\ UNCHANGED <<options, now, heap, calls>>

\* 2015-11-18T00:00:00Z, in seconds
TimelineBase == 1447804800

\* Record times: 01:00, 15:00 and 23:30 UTC of that day, of the next day and
\* of the day a week later
Timeline ==
  {TimelineBase + d * secondsPerDay + h : d \in {0, 1, 7}, h \in {3600, 54000, 84600}}

\* the elements of a set of seconds, ascending
RECURSIVE Ascending(_)
Ascending(S) ==
  IF S = {} THEN <<>>
  ELSE LET least == CHOOSE x \in S : \A y \in S : x <= y
       IN  <<least>> \o Ascending(S \ {least})

\* one record a day at 15:00 UTC, on eight days running
EightDays == {TimelineBase + d * secondsPerDay + 54000 : d \in 0 .. 7}

RecordTimes == (SUBSET Timeline) \cup {EightDays}

\* records as chunkDataByDay takes them, sorted ascending
EpochRecords(S) ==
  LET t == Ascending(S)
  IN  [i \in 1 .. Len(t) |-> [id |-> i, epochTimeMilliSec |-> BigNum(SecondsToMs(t[i]))]]

\* egvs as the provider lists them, sorted ascending
EgvRecords(S, tz) ==
  LET t == Ascending(S)
  IN  [i \in 1 .. Len(t) |-> [id |-> i, systemTime |-> LocalDateString(SecondsToMs(t[i]), tz)]]

ProbeChunkDataByDay(S, tz) ==
  /\ probe = NoProbe
  /\ probe' = [fn |-> "chunkDataByDay",
               a |-> [data |-> EpochRecords(S), tz |-> tz, configured |-> TRUE],
               b |-> Undefined,
               returned |-> chunkDataByDay(EpochRecords(S), tz)]
  /\ UNCHANGED <<options, now, heap, calls>>

ProbeShardEgvsByDay(S, tz) ==
  /\ probe = NoProbe
  /\ probe' = [fn |-> "shardEgvsByDay",
               a |-> [data |-> EgvRecords(S, tz), tz |-> tz,
                      configured |-> validateOptions(options)],
               b |-> Undefined,
               returned |-> shardEgvsByDay(EgvRecords(S, tz), options, tz)]
  /\ UNCHANGED <<options, now, heap, calls>>

NextDates ==
  \/ \E o \in OptionArgs : SetOptions(o)
  \/ \E S \in RecordTimes, tz \in TimeZoneOffsets : ProbeChunkDataByDay(S, tz)
  \/ \E S \in RecordTimes, tz \in TimeZoneOffsets : ProbeShardEgvsByDay(S, tz)
  \/ \E e \in EarliestTimes, o \in EndOffsets, d \in 0 .. MaxDaysPast, tz \in TimeZoneOffsets :
        ProbeRangeInDayIntervals(e, o, d, tz)
  \/ \E t \in EpochTimes : ProbeDexcomifyEpochTime(t)

SpecDates == Init /\ [][NextDates]_vars

----------------------------------------------------------------------------
(* The response bodies.  The earlier module DexcomData (getData, getEvents, *)
(* getCalibrations) rewrites the records of the body; DexcomJS returns the  *)
(* body as its category field.                                              *)

IsArray(v) == v.t = "array"

\* el[name] = v
SetProp(o, name, v) == Obj((name :> v) @@ o.props)

\* Date.parse(v) of a date-time string without offset
DateParseValue(v, tz) == BigNum(DateParse(v.tag, tz))

\* el.systemEpochTime = ...; el.displayEpochTime = ...; el.type = category
Stamp(el, category, tz) ==
  SetProp(SetProp(SetProp(el,
      "systemEpochTime", DateParseValue(Prop(el, "systemTime"), tz)),
      "displayEpochTime", DateParseValue(Prop(el, "displayTime"), tz)),
      "type", Str(category, Len(category), FALSE))

\* if (!el.unit && data.unit) el.unit = data.unit, and the same for rateUnit
BackfillNothing(el, data, name) == el
Backfill(el, data, name) ==
  IF ~Truthy(Prop(el, name)) /\ Truthy(Prop(data, name))
    THEN SetProp(el, name, Prop(data, name))
    ELSE el

\* the callback of data.<category>.map
NormalizeRecord(el, data, category, tz) ==
  IF category = "egvs"
    THEN Stamp(Backfill(Backfill(el, data, "unit"), data, "rateUnit"), category, tz)
    ELSE Stamp(el, category, tz)

\* the four assertions that open getData, getEvents and getCalibrations
DexcomDataInputsValid(tokenSet, startTime, endTime) ==
  /\ Truthy(tokenSet)
  /\ Truthy(Prop(tokenSet, "access_token"))
  /\ Truthy(startTime)
  /\ Truthy(endTime)

\* DexcomData.getData / getEvents / getCalibrations, the provider answering
\* with body `data`
DexcomDataFetch(category, tokenSet, startTime, endTime, data, tz) ==
  IF ~DexcomDataInputsValid(tokenSet, startTime, endTime)
    THEN [threw |-> "AssertionError", value |-> Undefined]
    ELSE [threw |-> "none",
          value |-> IF Truthy(data) /\ IsArray(Prop(data, category))
                      THEN LET items == Prop(data, category).items
                           IN  Array([i \in DOMAIN items |->
                                        NormalizeRecord(items[i], data, category, tz)])
                      ELSE data]

getData(tokenSet, startTime, endTime, data, tz) ==
  DexcomDataFetch("egvs", tokenSet, startTime, endTime, data, tz)
getEvents(tokenSet, startTime, endTime, data, tz) ==
  DexcomDataFetch("events", tokenSet, startTime, endTime, data, tz)
getCalibrations(tokenSet, startTime, endTime, data, tz) ==
  DexcomDataFetch("calibrations", tokenSet, startTime, endTime, data, tz)

\* the name of the list in the body of each operation
CategoryOf(op) ==
  CASE op = "getEstimatedGlucoseValues" -> "egvs"
    [] op = "getEvents"                 -> "events"
    [] op = "getCalibrations"           -> "calibrations"

RecordOps == {"getEstimatedGlucoseValues", "getEvents", "getCalibrations"}

Text(str) == Str(str, Len(str), FALSE)

\* a record as the provider sends it; unit and rateUnit may be left out
ProviderRecord(n, unit, rateUnit) ==
  Obj([systemTime  |-> Text("2015-11-18T15:0" \o ToString(n) \o ":00"),
       displayTime |-> Text("2015-11-18T07:0" \o ToString(n) \o ":00"),
       value       |-> Num(100 + n),
       unit        |-> unit,
       rateUnit    |-> rateUnit])

RecordUnits == {Undefined, Text("mmol/L")}
RecordRateUnits == {Undefined, Text("mmol/L/min")}

RecordLists ==
  {<<>>} \cup
  {<<ProviderRecord(1, u, r)>> : u \in RecordUnits, r \in RecordRateUnits} \cup
  {<<ProviderRecord(1, u, r), ProviderRecord(2, v, Undefined)>> :
     u \in RecordUnits, r \in RecordRateUnits, v \in RecordUnits}

\* the bodies the provider answers with: a list of records under the
\* category's name with response-level units, or a body without the list
ProviderBodies(category) ==
  {Obj(("unit" :> u) @@ ("rateUnit" :> r) @@ (category :> Array(list))) :
     u \in {Undefined, Text("mg/dL")}, r \in {Undefined, Text("mg/dL/min")},
     list \in RecordLists}
  \cup {Obj([message |-> Text("no data")]), Undefined}

TokenSets == {JSNull, Obj([access_token |-> Text("access-A")])}

ProbeGetData(tokenSet, window, data, tz) ==
  /\ probe = NoProbe
  /\ probe' = [fn |-> "DexcomData.egvs",
               a |-> [category |-> "egvs", data |-> data, tz |-> tz],
               b |-> Undefined,
               returned |-> getData(tokenSet, window[1], window[2], data, tz)]
  /\ UNCHANGED <<options, now, heap, calls>>

ProbeGetEvents(tokenSet, window, data, tz) ==
  /\ probe = NoProbe
  /\ probe' = [fn |-> "DexcomData.events",
               a |-> [category |-> "events", data |-> data, tz |-> tz],
               b |-> Undefined,
               returned |-> getEvents(tokenSet, window[1], window[2], data, tz)]
  /\ UNCHANGED <<options, now, heap, calls>>

ProbeGetCalibrations(tokenSet, window, data, tz) ==
  /\ probe = NoProbe
  /\ probe' = [fn |-> "DexcomData.calibrations",
               a |-> [category |-> "calibrations", data |-> data, tz |-> tz],
               b |-> Undefined,
               returned |-> getCalibrations(tokenSet, window[1], window[2], data, tz)]
  /\ UNCHANGED <<options, now, heap, calls>>

\* the bodies DexcomJS is followed with: it hands them on as they are
FacadeBodies(category) ==
  {Obj(("unit" :> Text("mg/dL")) @@ ("rateUnit" :> Text("mg/dL/min")) @@ (category :> Array(list))) :
     list \in {<<>>, <<ProviderRecord(1, Undefined, Undefined), ProviderRecord(2, Text("mmol/L"), Undefined)>>}}
  \cup {Obj([message |-> Text("no data")])}

\* a process uses one of the two modules: DexcomData is applied while no call
\* of DexcomJS has been made, DexcomJS while DexcomData has not been applied
NoCalls == \A c \in Calls : calls[c] = IdleCall

NextBodies ==
  \/ \E o \in OptionArgs : SetOptions(o)
  \/ \E c \in Calls, op \in RecordOps, e \in 0 .. Len(heap), w \in CallWindows :
        probe = NoProbe /\ InvokeFetch(c, op, e, w)
  \/ \E c \in Calls : probe = NoProbe /\ ResumeAfterRefresh(c)
  \/ \E c \in Calls, op \in RecordOps : \E d \in FacadeBodies(CategoryOf(op)) :
        probe = NoProbe /\ calls[c].op = op /\ DataResolved(c, d)
  \/ \E c \in Calls : probe = NoProbe /\ DataRejected(c)
  \/ \E c \in Calls : probe = NoProbe /\ Collect(c)
  \/ \E t \in TokenSets, w \in CallWindows, tz \in TimeZoneOffsets :
       \E d \in ProviderBodies("egvs") : NoCalls /\ ProbeGetData(t, w, d, tz)
  \/ \E t \in TokenSets, w \in CallWindows, tz \in TimeZoneOffsets :
       \E d \in ProviderBodies("events") : NoCalls /\ ProbeGetEvents(t, w, d, tz)
  \/ \E t \in TokenSets, w \in CallWindows, tz \in TimeZoneOffsets :
       \E d \in ProviderBodies("calibrations") : NoCalls /\ ProbeGetCalibrations(t, w, d, tz)

SpecBodies == Init /\ [][NextBodies]_vars

----------------------------------------------------------------------------
(* Properties *)

Done(c) == calls[c].pc = "done"

\* strictly more than 60000 ms of validity remain at model time t
FreshAt(env, t) ==
  LET expiry == BigAdd(Prop(env, "timestamp").mag,
                       Big(0, 0, Prop(Prop(env, "dexcomOAuthToken"), "expires_in").mag[3] * 1000))
      limit  == BigAdd(DateNow(t).mag, Big(0, 0, 60000))
  IN  BigLeq(limit, expiry) /\ limit # expiry

RefreshRequests(c) ==
  {i \in DOMAIN calls[c].requests : calls[c].requests[i].kind = "refresh_token"}
DataRequests(c) ==
  {i \in DOMAIN calls[c].requests : calls[c].requests[i].kind = "data"}

\* C1: refreshAccessToken(envelope, force) returns the envelope it was given,
\* with no request, exactly when force is false and more than 60000 ms remain;
\* in every other case it performs a refresh exchange and returns a new
\* envelope with a new timestamp.
C1_RefreshContract ==
  \A c \in Calls :
    (Done(c) /\ calls[c].op = "refreshAccessToken") =>
      LET call  == calls[c]
          fresh == ~call.force /\ FreshAt(heap[call.env], call.checkedAt)
      IN  /\ fresh <=> (call.status = "fulfilled" /\ call.envelope = call.env
                        /\ call.requests = <<>>)
          /\ ~fresh => /\ call.status = "fulfilled"
                       /\ call.envelope \in DOMAIN heap
                       /\ call.envelope # call.env
                       /\ RefreshRequests(c) # {}

\* C2: with valid inputs and a provider that answers successfully, a
\* data-fetch called with a Fresh envelope returns no oauthTokens field, and
\* called with an Expiring envelope it completes successfully with an
\* oauthTokens field holding a new envelope distinct from the one supplied.
C2_TokensFieldByFreshness ==
  \A c \in Calls :
    (Done(c) /\ calls[c].op \in DataOps /\ calls[c].error # "AssertionError"
       /\ calls[c].dataError = "none") =>
      LET call == calls[c] IN
      IF FreshAt(heap[call.env], call.checkedAt)
        THEN call.status = "fulfilled" /\ ~call.result.hasTokens
        ELSE /\ call.status = "fulfilled"
             /\ call.result.hasTokens
             /\ call.result.tokens \in DOMAIN heap
             /\ call.result.tokens # call.env

\* C3: in the result of a successful data-fetch the oauthTokens field is
\* present exactly when the envelope the lifecycle manager returned is not the
\* object the caller passed in, and it is then that returned envelope.
C3_TokensFieldIffRefreshed ==
  \A c \in Calls :
    (Done(c) /\ calls[c].op \in DataOps /\ calls[c].status = "fulfilled") =>
      /\ calls[c].result.hasTokens <=> (calls[c].refreshed # calls[c].env)
      /\ calls[c].result.hasTokens => calls[c].result.tokens = calls[c].refreshed

C3_Witness ==
  \E c \in Calls :
    /\ Done(c) /\ calls[c].op \in DataOps /\ calls[c].status = "fulfilled"
    /\ calls[c].refreshed = calls[c].env /\ ~calls[c].result.hasTokens

C5_InputsFailValidation(call) ==
  IF call.op = "getSandboxAuthenticationToken"
    THEN ~validateOptions(options) \/ ~validateSandboxAuthcode(call.authcode)
    ELSE \/ ~validateOptions(options)
         \/ ~validateOAuthTokens(EnvValue(heap, call.env))
         \/ call.op \in WindowedOps /\ ~validateTimeWindow(call.startTime, call.endTime)

C5_ValidationBeforeNetwork ==
  [][ \A c \in Calls :
        (calls[c].pc = "idle" /\ calls'[c].pc # "idle"
           /\ calls'[c].op \in DataOps \cup {"getSandboxAuthenticationToken"}
           /\ C5_InputsFailValidation(calls'[c])) =>
          /\ calls'[c].pc = "done"
          /\ calls'[c].status = "rejected"
          /\ calls'[c].error = "AssertionError"
          /\ calls'[c].requests = <<>> ]_vars

C5_Witness ==
  \E c \in Calls :
    /\ Done(c) /\ calls[c].op \in WindowedOps /\ calls[c].error = "AssertionError"
    /\ validateOptions(options) /\ validateOAuthTokens(EnvValue(heap, calls[c].env))
    /\ ~validateTimeWindow(calls[c].startTime, calls[c].endTime)
    /\ calls[c].requests = <<>>

\* C6: no step of a data-fetch operation or of refreshAccessToken changes any
\* field of an existing envelope: every envelope object keeps its value, and
\* what an operation returns anew is another object.
C6_EnvelopesNeverMutated ==
  [][ \A i \in DOMAIN heap : i \in DOMAIN heap' /\ heap'[i] = heap[i] ]_vars

C6_Witness ==
  \E c \in Calls :
    /\ Done(c) /\ calls[c].op \in DataOps \cup {"refreshAccessToken"}
    /\ calls[c].refreshError # "none"

\* C7: a single-window data-fetch call issues at most one refresh exchange and
\* at most one data request, the refresh before the data request; when the
\* data request fails the call rejects with that failure, returns no result
\* and issues no further request.
C7_NoRetries ==
  \A c \in Calls :
    calls[c].op \in DataOps =>
      /\ Cardinality(RefreshRequests(c)) <= 1
      /\ Cardinality(DataRequests(c)) <= 1
      /\ \A i \in RefreshRequests(c), j \in DataRequests(c) : i < j
      /\ calls[c].dataError # "none" =>
           /\ Done(c)
           /\ calls[c].status = "rejected"
           /\ calls[c].error = calls[c].dataError
           /\ calls[c].result = NoResult
           /\ Len(calls[c].requests) = 1

C7_Witness ==
  \E c \in Calls :
    /\ Done(c) /\ calls[c].op \in DataOps /\ calls[c].dataError = "HttpError"
    /\ calls[c].status = "rejected" /\ Len(calls[c].requests) = 1

IsNumber(v) == v.t = "number"
Missing(v) == v.t \in {"undefined", "null"}
StringWithin(v, lo, hi) == v.t = "string" /\ lo <= v.len /\ v.len <= hi
EmptyOrMissing(v) == v.t = "undefined" \/ (v.t = "string" /\ v.len = 0)

\* C8: validateTimeWindow(start, end) fails whenever a bound is missing, a
\* bound is negative, or start >= end, and succeeds for every pair of integers
\* with 0 <= start < end, start = 0 included.
C8_TimeWindowContract ==
  probe.fn = "validateTimeWindow" =>
    LET s == probe.a
        e == probe.b
    IN  /\ (Missing(s) \/ Missing(e)) => ~probe.returned
        /\ (IsNumber(s) /\ IsNumber(e) /\ (s.neg \/ e.neg \/ NumLeq(e, s))) => ~probe.returned
        /\ (IsNumber(s) /\ IsNumber(e) /\ ~s.neg /\ NumLess(s, e)) => probe.returned

\* C9: validateOptions(candidate) fails when candidate is null, when any of
\* clientId, clientSecret, redirectUri, apiUri is missing or empty, when
\* clientId is longer than 32 or clientSecret longer than 16 characters, or
\* when redirectUri or apiUri is not a URI; it succeeds for every record whose
\* four fields satisfy these bounds.
C9_ValidateOptionsContract ==
  probe.fn = "validateOptions" =>
    LET o   == probe.a
        id  == Prop(o, "clientId")
        sec == Prop(o, "clientSecret")
        red == Prop(o, "redirectUri")
        api == Prop(o, "apiUri")
        bad == \/ Missing(o)
               \/ \E f \in {id, sec, red, api} : EmptyOrMissing(f)
               \/ id.t = "string" /\ id.len > 32
               \/ sec.t = "string" /\ sec.len > 16
               \/ red.t = "string" /\ ~red.uri
               \/ api.t = "string" /\ ~api.uri
        good == /\ o.t = "object"
                /\ StringWithin(id, 1, 32) /\ StringWithin(sec, 1, 16)
                /\ red.t = "string" /\ red.uri /\ api.t = "string" /\ api.uri
    IN  (bad => ~probe.returned) /\ (good => probe.returned)

C9_Witness ==
  /\ probe.fn = "validateOptions" /\ probe.returned
  /\ Prop(probe.a, "clientId").len = 32 /\ Prop(probe.a, "clientSecret").len = 16

\* C10: validateOAuthTokens(candidate) fails when candidate is null, when
\* timestamp is missing or negative, when dexcomOAuthToken lacks any of
\* access_token, expires_in, token_type, refresh_token, when one of the three
\* strings is empty or longer than 1024, 6, 1024, or when expires_in is
\* outside 0..7200; it succeeds for an envelope that meets all of these,
\* a real epoch-millisecond timestamp included.
C10_ValidateOAuthTokensContract ==
  probe.fn = "validateOAuthTokens" =>
    LET o   == probe.a
        ts  == Prop(o, "timestamp")
        tok == Prop(o, "dexcomOAuthToken")
        at  == Prop(tok, "access_token")
        ex  == Prop(tok, "expires_in")
        tt  == Prop(tok, "token_type")
        rt  == Prop(tok, "refresh_token")
        inRange == IsNumber(ex) /\ NumLeq(Num(0), ex) /\ NumLeq(ex, Num(7200))
        bad == \/ Missing(o)
               \/ Missing(ts) \/ (IsNumber(ts) /\ ts.neg)
               \/ \E f \in {at, ex, tt, rt} : f.t = "undefined"
               \/ at.t = "string" /\ (at.len = 0 \/ at.len > 1024)
               \/ tt.t = "string" /\ (tt.len = 0 \/ tt.len > 6)
               \/ rt.t = "string" /\ (rt.len = 0 \/ rt.len > 1024)
               \/ IsNumber(ex) /\ ~inRange
        good == /\ o.t = "object" /\ IsNumber(ts) /\ ~ts.neg
                /\ StringWithin(at, 1, 1024) /\ StringWithin(tt, 1, 6)
                /\ StringWithin(rt, 1, 1024) /\ inRange
    IN  (bad => ~probe.returned) /\ (good => probe.returned)

C10_Witness ==
  /\ probe.fn = "validateOAuthTokens" /\ probe.returned
  /\ Prop(probe.a, "timestamp") = RealEpoch
  /\ Prop(Prop(probe.a, "dexcomOAuthToken"), "access_token").len = 1024

SixSandboxCodes ==
  {"authcode1", "authcode2", "authcode3", "authcode4", "authcode5", "authcode6"}

\* C11: validateSandboxAuthcode(code) succeeds exactly for the six strings
\* 'authcode1' .. 'authcode6' and fails for every other value ('authcode0',
\* 'authcode7', the empty string, a missing value, a non-string).
C11_SandboxAuthcodeContract ==
  probe.fn = "validateSandboxAuthcode" =>
    (probe.returned <=> (probe.a.t = "string" /\ probe.a.tag \in SixSandboxCodes))

C11_Witness ==
  /\ probe.fn = "validateSandboxAuthcode" /\ ~probe.returned
  /\ probe.a.t = "string" /\ probe.a.tag = "authcode7"

\* C20: dexcomifyEpochTime(t) is the 19-character UTC rendering
\* YYYY-MM-DDThh:mm:ss of t truncated to whole seconds: it denotes the second
\* floor(t / 1000), and for t = 1586101155000 it is '2020-04-05T15:39:15'.
C20_DexcomifyTruncatesToSeconds ==
  probe.fn = "dexcomifyEpochTime" =>
    /\ Len(probe.returned) = 19
    /\ SecondsOfDateString(probe.returned) = EpochSeconds(probe.a.mag)
    /\ probe.a = BigNum(Big(0, 1586, 101155000)) => probe.returned = "2020-04-05T15:39:15"

C20_Witness ==
  /\ probe.fn = "dexcomifyEpochTime"
  /\ probe.a = BigNum(Big(0, 1586, 101155999))
  /\ probe.returned = "2020-04-05T15:39:15"

SandboxNames ==
  {p \o d : p \in {"authcode", "SandboxUser"}, d \in {"1", "2", "3", "4", "5", "6"}}

\* C12: getSandboxAuthenticationToken accepts 'SandboxUserN' as well as the
\* legacy 'authcodeN': with valid configuration either form passes input
\* validation and is sent to the consent page as user 'SandboxUserN', and when
\* the provider answers the call yields an envelope with a timestamp and a
\* dexcomOAuthToken.
C12_SandboxUserNamesAccepted ==
  [][ \A c \in RangeCalls :
        LET call == calls'[c] IN
        /\ ( /\ calls[c].pc = "idle" /\ call.pc # "idle"
             /\ call.op = "getSandboxAuthenticationToken"
             /\ validateOptions(options)
             /\ call.authcode.tag \in SandboxNames ) =>
               /\ call.pc = "awaitConsent"
               /\ call.requests[1].userId = "SandboxUser" \o LastLetter(call.authcode)
        /\ ( calls[c].pc = "awaitToken" /\ call.status = "fulfilled" ) =>
               /\ call.envelope \in DOMAIN heap'
               /\ Prop(heap'[call.envelope], "timestamp").t = "number"
               /\ Prop(heap'[call.envelope], "dexcomOAuthToken").t = "object" ]_vars

RangeCall(c) == calls[c].op = RangeOp /\ Len(calls[c].times) > 0

\* C13: getEstimatedGlucoseValuesAnyDateRange splits a valid window of span S
\* into exactly ceil(S / 89 days) consecutive sub-windows, each no longer than
\* 89 days, the first starting at startTime, the last ending at endTime, each
\* ending where the next begins.
C13_SplitIntoCeilSubWindows ==
  \A c \in RangeCalls :
    RangeCall(c) =>
      LET times == calls[c].times
          n     == Len(times)
          start == calls[c].startTime.mag
          end   == calls[c].endTime.mag
      IN  /\ times[1].startTime.mag = start
          /\ times[n].endTime.mag = end
          /\ \A i \in 1 .. n - 1 : times[i].endTime = times[i + 1].startTime
          /\ \A i \in 1 .. n :
               /\ BigLeq(times[i].startTime.mag, times[i].endTime.mag)
               /\ BigLeq(times[i].endTime.mag, BigAdd(times[i].startTime.mag, Big(0, 7, 689600000)))
          \* n = ceil(S / 89 days):  (n - 1) * 89 days < S <= n * 89 days
          /\ BigLess(BigAdd(start, BigScale(n - 1, Big(0, 7, 689600000))), end)
          /\ BigLeq(end, BigAdd(start, BigScale(n, Big(0, 7, 689600000))))

\* C14: every sub-window request is issued before any response is handled,
\* one request per sub-window in sub-window order, and the combined egvs list
\* is the concatenation of the sub-windows' record lists in sub-window order,
\* whatever the order in which the responses arrived.
C14_ConcatenationIsPositional ==
  \A c \in RangeCalls :
    RangeCall(c) =>
      LET call == calls[c]
          n    == Len(call.times)
      IN  /\ Len(call.requests) = n /\ Len(call.responses) = n
          \* before any response is handled every request is there
          /\ call.arrivals = <<>> => \A i \in 1 .. n :
               /\ call.requests[i].startDate = dexcomifyEpochTime(call.times[i].startTime)
               /\ call.requests[i].endDate = dexcomifyEpochTime(call.times[i].endTime)
          /\ call.status = "fulfilled" =>
               LET egvs == call.result.estimatedGlucoseValues.egvs IN
               /\ Len(egvs) = 2 * n
               /\ \A k \in 1 .. 2 * n :
                    egvs[k] = [sub |-> (k + 1) \div 2, n |-> ((k - 1) % 2) + 1]

C14_Witness ==
  \E c \in RangeCalls :
    /\ RangeCall(c) /\ calls[c].status = "fulfilled"
    /\ Len(calls[c].arrivals) >= 3
    /\ calls[c].arrivals[1] > calls[c].arrivals[2]

\* C15: if any sub-window request fails, getEstimatedGlucoseValuesAnyDateRange
\* rejects and returns no result, whichever sub-windows succeeded before or
\* after the failure.
C15_NoPartialResult ==
  \A c \in RangeCalls :
    (RangeCall(c) /\ \E i \in DOMAIN calls[c].responses : calls[c].responses[i].state = "rejected") =>
      /\ Done(c)
      /\ calls[c].status = "rejected"
      /\ calls[c].result = NoResult

C15_Witness ==
  \E c \in RangeCalls :
    /\ RangeCall(c) /\ calls[c].status = "rejected"
    /\ Len(calls[c].arrivals) = 3
    /\ calls[c].responses[calls[c].arrivals[1]].state = "fulfilled"
    /\ calls[c].responses[calls[c].arrivals[2]].state = "rejected"
    /\ calls[c].responses[calls[c].arrivals[3]].state = "fulfilled"

\* C16: the unit and rateUnit of the combined result equal the unit and
\* rateUnit carried by the response payload of the first sub-window.
C16_UnitsOfFirstSubWindow ==
  \A c \in RangeCalls :
    (RangeCall(c) /\ calls[c].status = "fulfilled") =>
      LET first == Prop(calls[c].responses[1].value, "data")
          egv   == calls[c].result.estimatedGlucoseValues
      IN  /\ egv.unit = Prop(first, "unit")
          /\ egv.rateUnit = Prop(first, "rateUnit")

\* local midnight of the calendar date the local clock shows at instant m
MidnightOfLocalDate(m, tz) == DateParse(SubSeq(LocalDateString(m, tz), 1, 10) \o "T00:00:00", tz)

RecordInstant(el, fn, tz) ==
  IF fn = "chunkDataByDay" THEN el.epochTimeMilliSec.mag ELSE DateParse(el.systemTime, tz)

\* the local calendar date of a record, as YYYY-MM-DD
RecordDate(el, fn, tz) == SubSeq(LocalDateString(RecordInstant(el, fn, tz), tz), 1, 10)

DayChunkingReturned ==
  /\ probe.fn \in {"chunkDataByDay", "shardEgvsByDay"}
  /\ probe.a.configured

\* C18: day-chunking (chunkDataByDay, shardEgvsByDay) of a list sorted
\* ascending puts every record in exactly one group, never two records of
\* different calendar dates in one group, yields as many groups as there are
\* distinct calendar days in the list, and keeps the input order in each group.
C18_DayChunkingPartitionsByDate ==
  DayChunkingReturned =>
    LET data   == probe.a.data
        groups == probe.returned.groups
        fn     == probe.fn
        tz     == probe.a.tz
    IN  /\ probe.returned.threw = "none"
        /\ \A i \in DOMAIN data :
             Cardinality({<<g, k>> \in (DOMAIN groups) \X (DOMAIN data) :
                            k \in DOMAIN groups[g].items /\ groups[g].items[k] = data[i]}) = 1
        /\ \A g \in DOMAIN groups :
             /\ \A k1, k2 \in DOMAIN groups[g].items :
                  RecordDate(groups[g].items[k1], fn, tz) = RecordDate(groups[g].items[k2], fn, tz)
             /\ \A k1, k2 \in DOMAIN groups[g].items :
                  k1 < k2 => groups[g].items[k1].id < groups[g].items[k2].id
        /\ Len(groups) = Cardinality({RecordDate(data[i], fn, tz) : i \in DOMAIN data})

GroupKeysAreMidnight(fn) ==
  (DayChunkingReturned /\ probe.fn = fn) =>
    \A g \in DOMAIN probe.returned.groups :
      probe.returned.groups[g].key =
        MidnightOfLocalDate(RecordInstant(probe.returned.groups[g].items[1], fn, probe.a.tz),
                            probe.a.tz)

\* C19 as claimed: the key of every group produced by day-chunking
\* (chunkDataByDay, shardEgvsByDay) is the epoch-millisecond value of local
\* midnight of the calendar date of the group's records, whatever the time of
\* day of the first record of that date.
C19_KeysAreLocalMidnight ==
  GroupKeysAreMidnight("chunkDataByDay") /\ GroupKeysAreMidnight("shardEgvsByDay")

\* C19 as amended: the key of every group produced by shardEgvsByDay is the
\* epoch-millisecond value of local midnight of the calendar date of the
\* group's records; the key of a group produced by chunkDataByDay is the
\* epoch-millisecond time of the first record of the group.
C19_KeysByFunction ==
  /\ GroupKeysAreMidnight("shardEgvsByDay")
  /\ (DayChunkingReturned /\ probe.fn = "chunkDataByDay") =>
       \A g \in DOMAIN probe.returned.groups :
         probe.returned.groups[g].key = probe.returned.groups[g].items[1].epochTimeMilliSec.mag

C19_Witness ==
  /\ DayChunkingReturned /\ probe.fn = "shardEgvsByDay" /\ probe.a.tz # 0
  /\ Len(probe.returned.groups) = 8
  /\ \A g \in 1 .. 8 :
       probe.returned.groups[g].key # DateParse(probe.returned.groups[g].items[1].systemTime, probe.a.tz)

\* the requests a step adds to call c
NewRequests(c) ==
  {i \in DOMAIN calls'[c].requests : i \notin DOMAIN calls[c].requests}

\* C21 as stated: every HTTP request the system issues (the authorization-code
\* token exchange, the token refresh and each of the five data requests) goes
\* to the configured apiUri followed by the operation's fixed path.
C21_AllRequestsToApiUri ==
  [][ \A c \in Calls : \A i \in NewRequests(c) :
        calls'[c].requests[i].base = Prop(options, "apiUri") ]_vars

\* C21, amended: each of the five data requests goes to the configured apiUri
\* followed by the operation's fixed path; the authorization-code exchange of
\* getSandboxAuthenticationToken always goes to https://sandbox-api.dexcom.com
\* followed by /v2/oauth2/token, whatever apiUri is configured.
C21_RequestHosts ==
  [][ \A c \in Calls : \A i \in NewRequests(c) :
        LET r == calls'[c].requests[i] IN
        /\ r.kind \in {"data", "authorization_code"}
        /\ r.kind = "data" =>
             /\ r.base = Prop(options, "apiUri")
             /\ r.path = EndpointPath(calls'[c].op)
             /\ r.method = HttpMethod(calls'[c].op)
        /\ r.kind = "authorization_code" =>
             /\ r.base = SandboxTokenUrl
             /\ r.path = "/v2/oauth2/token"
             /\ r.method = "POST" ]_vars

C21_Witness ==
  /\ Prop(options, "apiUri") # SandboxTokenUrl
  /\ \E c \in Calls :
       /\ calls[c].op \in DataOps /\ calls[c].pc = "awaitData"
       /\ calls[c].requests[1].base = Prop(options, "apiUri")

Defined(v) == v.t # "undefined"

\* the records of a body, none if the body has no list
RecordsOf(body, category) ==
  IF IsArray(body) THEN body.items
  ELSE IF IsArray(Prop(body, category)) THEN Prop(body, category).items
  ELSE <<>>

\* a returned record carries the derived fields and the tag of its category
CarriesDerivedFields(el, category) ==
  /\ \E tz \in TimeZoneOffsets :
       /\ Prop(el, "systemEpochTime") = DateParseValue(Prop(el, "systemTime"), tz)
       /\ Prop(el, "displayEpochTime") = DateParseValue(Prop(el, "displayTime"), tz)
  /\ Prop(el, "type") = Text(category)

\* the records a fulfilled call of DexcomJS returns
FacadeRecords(c) == RecordsOf(calls[c].data, CategoryOf(calls[c].op))

FacadeReturned(c) ==
  Done(c) /\ calls[c].op \in RecordOps /\ calls[c].status = "fulfilled"

DexcomDataReturned == probe.fn \in {"DexcomData.egvs", "DexcomData.events", "DexcomData.calibrations"}
                        /\ probe.returned.threw = "none"

\* C22 as stated: in the result of the glucose-value, event and calibration
\* fetch operations every returned record carries systemEpochTime and
\* displayEpochTime (the epoch milliseconds of its systemTime and displayTime)
\* and a type tag naming its category, and a glucose record that omits unit or
\* rateUnit has it filled from the response-level unit or rateUnit.
C22_RecordsNormalized ==
  /\ \A c \in Calls :
       FacadeReturned(c) =>
         \A i \in DOMAIN FacadeRecords(c) :
           /\ CarriesDerivedFields(FacadeRecords(c)[i], CategoryOf(calls[c].op))
           /\ calls[c].op = "getEstimatedGlucoseValues" =>
                \A name \in {"unit", "rateUnit"} :
                  Defined(Prop(calls[c].data, name)) => Defined(Prop(FacadeRecords(c)[i], name))
  /\ DexcomDataReturned =>
       \A i \in DOMAIN RecordsOf(probe.returned.value, probe.a.category) :
         CarriesDerivedFields(RecordsOf(probe.returned.value, probe.a.category)[i], probe.a.category)

\* C22, amended: getData, getEvents and getCalibrations of the earlier
\* DexcomData module return the list of the provider's records, each with
\* systemEpochTime and displayEpochTime (its systemTime and displayTime read as
\* local time), a type tag naming the category and its other fields kept, a
\* glucose record that omits unit or rateUnit taking the response-level value
\* when there is one; the fetch operations of DexcomJS return the provider's
\* body as it is, with no derived field on any record.
C22_NormalizedByDexcomDataOnly ==
  /\ \A c \in Calls :
       FacadeReturned(c) =>
         /\ calls[c].data \in FacadeBodies(CategoryOf(calls[c].op))
         /\ \A i \in DOMAIN FacadeRecords(c) :
              \A name \in {"systemEpochTime", "displayEpochTime", "type"} :
                ~Defined(Prop(FacadeRecords(c)[i], name))
  /\ DexcomDataReturned =>
       LET cat == probe.a.category
           in  == RecordsOf(probe.a.data, cat)
           out == RecordsOf(probe.returned.value, cat)
       IN  /\ Len(out) = Len(in)
           /\ IsArray(Prop(probe.a.data, cat)) => IsArray(probe.returned.value)
           /\ \A i \in DOMAIN in :
                /\ Prop(out[i], "systemEpochTime") = DateParseValue(Prop(in[i], "systemTime"), probe.a.tz)
                /\ Prop(out[i], "displayEpochTime") = DateParseValue(Prop(in[i], "displayTime"), probe.a.tz)
                /\ Prop(out[i], "type") = Text(cat)
                /\ \A name \in {"systemTime", "displayTime", "value"} :
                     Prop(out[i], name) = Prop(in[i], name)
                /\ \A name \in {"unit", "rateUnit"} :
                     Prop(out[i], name) =
                       IF Defined(Prop(in[i], name)) \/ cat # "egvs" THEN Prop(in[i], name)
                       ELSE Prop(probe.a.data, name)

C22_Witness ==
  /\ DexcomDataReturned /\ probe.a.category = "egvs"
  /\ Len(RecordsOf(probe.a.data, "egvs")) = 2
  /\ ~Defined(Prop(RecordsOf(probe.a.data, "egvs")[2], "unit"))
  /\ Prop(RecordsOf(probe.returned.value, "egvs")[2], "unit") = Text("mg/dL")
  /\ Prop(RecordsOf(probe.returned.value, "egvs")[1], "unit") = Text("mmol/L")

\* C23: setOptions replaces the configuration wholesale or not at all: a call
\* with a valid candidate stores that candidate, a call with an invalid
\* candidate throws and leaves the stored configuration as it was, and no
\* other step changes it; so the stored configuration is the default or the
\* argument of the most recent call that passed validation.
C23_ReplacedWholesaleOrNotAtAll ==
  [][ /\ \A o \in ConfigArgs :
           SetOptions(o) =>
             IF validateOptions(o)
               THEN options' = o /\ set(options, o).threw = "none"
               ELSE options' = options /\ set(options, o).threw = "AssertionError"
      /\ options' # options =>
           \E o \in ConfigArgs : validateOptions(o) /\ options' = o
      /\ options' = DefaultOptions \/ validateOptions(options') ]_vars

\* a valid configuration has replaced another valid one
C23_Witness ==
  /\ options = SandboxOptions
  /\ \E c \in Calls : calls[c].config = ValidOptions

\* C24: as long as no setOptions call has succeeded the stored configuration
\* is the built-in default, which fails validation; every data-fetch operation
\* and getSandboxAuthenticationToken invoked in such a state fails with a
\* validation error, and no HTTP request has been issued.
C24_NothingBeforeConfiguration ==
  options = DefaultOptions =>
    /\ ~validateOptions(options)
    /\ \A c \in Calls :
         calls[c].op \in DataOps \cup {"getSandboxAuthenticationToken"} =>
           /\ Done(c)
           /\ calls[c].status = "rejected"
           /\ calls[c].error = "AssertionError"
           /\ calls[c].requests = <<>>

\* a call whose other arguments are valid has failed under the default
C24_Witness ==
  /\ options = DefaultOptions
  /\ \E c \in Calls :
       /\ Done(c) /\ calls[c].error = "AssertionError"
       /\ \/ /\ calls[c].op \in WindowedOps
             /\ validateOAuthTokens(EnvValue(heap, calls[c].env))
             /\ validateTimeWindow(calls[c].startTime, calls[c].endTime)
          \/ /\ calls[c].op = "getSandboxAuthenticationToken"
             /\ validateSandboxAuthcode(calls[c].authcode)

\* the call obtained a new envelope from the lifecycle manager
Refreshed(c) == calls[c].refreshed \notin {0, calls[c].env}

AccessTokenOf(env) == Prop(Prop(env, "dexcomOAuthToken"), "access_token")

C27_SubWindowsAreValidWindows ==
  \A c \in RangeCalls :
    RangeCall(c) =>
      \A i \in DOMAIN calls[c].times :
        validateTimeWindow(calls[c].times[i].startTime, calls[c].times[i].endTime)

\* C28: whenever rangeInDayIntervals returns valid = true the returned pair is
\* a valid time window, startTime strictly less than endTime, which
\* getEstimatedGlucoseValues accepts; also for an end time at the earliest
\* record and for daysPast = 0 with the end time exactly at midnight.
C28_ValidFlagMeansValidWindow ==
  (probe.fn = "rangeInDayIntervals" /\ probe.returned.valid) =>
    validateTimeWindow(probe.returned.startTime, probe.returned.endTime)

\* C29: a data-fetch call uses one configuration throughout: the data request
\* goes to the apiUri of the configuration that was validated when the call
\* began, also when setOptions stores another configuration while the call is
\* suspended.
C29_OneConfigurationPerCall ==
  \A c \in Calls :
    (calls[c].op \in DataOps /\ calls[c].config # Undefined) =>
      \A i \in DataRequests(c) :
        calls[c].requests[i].base = Prop(calls[c].config, "apiUri")

\* the data-fetch calls in flight or settled that were started with valid
\* inputs and an envelope that was not usable (Expiring)
StartedExpiring ==
  {c \in Calls : /\ calls[c].op \in DataOps /\ calls[c].pc # "idle"
                 /\ calls[c].error # "AssertionError" /\ ~calls[c].usable}

\* C30: refreshes are not coordinated between calls: each of the N data-fetch
\* calls started with the same Expiring envelope performs its own refresh
\* exchange, so N exchanges are issued, all with the envelope's refresh token,
\* and each call that completes returns its own new envelope.
C30_OneRefreshExchangePerCall ==
  /\ \A c \in StartedExpiring :
       /\ Cardinality(RefreshRequests(c)) = 1
       /\ (Done(c) /\ calls[c].dataError = "none") =>
            /\ calls[c].status = "fulfilled"
            /\ calls[c].result.hasTokens
            /\ calls[c].result.tokens \in DOMAIN heap
            /\ calls[c].result.tokens # calls[c].env
  /\ \A c, d \in StartedExpiring :
       (c # d /\ Done(c) /\ Done(d) /\ calls[c].result.hasTokens /\ calls[d].result.hasTokens) =>
         calls[c].result.tokens # calls[d].result.tokens

====
